---- MODULE Spec2Model ----
(***************************************************************************)
(* Model of the request pipeline of BufferClient (src/src/client.ts):      *)
(* initialize / token exchange, the axios interceptor chain that carries   *)
(* the rate-limit check and the error normalisation, retryRequest with     *)
(* exponential backoff, and the simulation-mode branch of the public       *)
(* operations.                                                             *)
(*                                                                         *)
(* Every BufferClient stores the process-wide axios singleton              *)
(* (client.ts:34) and registers its interceptors on it (client.ts:84-95).  *)
(* axios (package.json:54) runs a request through                          *)
(*   request interceptors, last registered first  ->  dispatch  ->         *)
(*   response interceptors, first registered first,                        *)
(* as one promise chain, so a rejection raised by a request interceptor    *)
(* skips the dispatch and is handed to the response error handlers.        *)
(* Time is in milliseconds (Date.now()).                                   *)
(*                                                                         *)
(* Spec follows the pipeline, SpecRetry retryRequest on an arbitrary       *)
(* requestFn, SpecConcurrent two operations of one client that interleave  *)
(* at every await, SpecLive the same under fairness of the clock, the      *)
(* event loop and the transport, and SpecPayload what the simulation       *)
(* branches return and                                                     *)
(* what the live analytics requests send (there time is counted in units   *)
(* of 30 minutes, see millisecondsPerDay).                                 *)
(***************************************************************************)
EXTENDS Integers, Sequences, FiniteSets, TLC

VARIABLES
    now,             \* Date.now()
    interceptors,    \* axios.interceptors: owners of the registered request/response pairs, in registration order
    clientConfig,    \* this.clientConfig of each client (constructor argument)
    initialized,     \* initialize() has completed for the client at least once
    config,          \* this.config
    retryConfig,     \* this.retryConfig
    rateLimitState,  \* this.rateLimitState
    ops,             \* the asynchronous tasks in progress (public operations and initialize calls)
    admitted,        \* history: own attempts a client's check admitted since its last window reset
    call             \* history: the payload of the last call SpecPayload followed (what was asked, what came back)

vars == <<now, interceptors, clientConfig, initialized, config, retryConfig,
          rateLimitState, ops, admitted, call>>

\* ---------------------------------------------------------------- bounds
MaxTime == 4
MaxInterceptors == 2

Clients == {"A", "B"}

\* Task slots; Spec runs one task at a time, in slot 1
Procs == {1, 2}
Slots == {1}

\* ------------------------------------------------------- program constants
DefaultRetryAttempts == 3
DefaultRetryDelay == 1000
DefaultRateLimitRequests == 100
DefaultRateLimitWindow == 3600000
BackoffFactor == 2
MsPerSecond == 1000
DefaultTimeout == 10000

\* An optional number the caller left out
Undefined == -1

\* `x || d` on an optional number: undefined and 0 are falsy
OrDefault(x, d) == IF x = Undefined \/ x = 0 THEN d ELSE x

\* The base URL initialize writes into the configuration (client.ts:43)
SdkBaseUrl == "http://localhost:8083/api/v1/sdk"

\* response.data.access_token of the token endpoint's answer
ExchangedToken == "exchanged-token"

\* Partial<BufferClientConfig> values handed to the constructor (Undefined and
\* "" = omitted)
SmallQuota ==
    [accessToken |-> "", baseUrl |-> "", timeout |-> Undefined,
     retryAttempts |-> Undefined, retryDelay |-> 2, requests |-> 1, window |-> 2, sdkMockMode |-> FALSE]
LargeQuota ==
    [accessToken |-> "test-token", baseUrl |-> "https://buffer.example/1", timeout |-> 0,
     retryAttempts |-> 3, retryDelay |-> 1, requests |-> 3, window |-> 4, sdkMockMode |-> FALSE]
Simulation ==
    [accessToken |-> "test-token", baseUrl |-> "", timeout |-> 5000,
     retryAttempts |-> 2, retryDelay |-> 1, requests |-> 2, window |-> 2, sdkMockMode |-> TRUE]

\* The clients constructed in the process
ConfigChoices ==
    { [c \in Clients |-> IF c = "A" THEN SmallQuota ELSE LargeQuota],
      [c \in Clients |-> IF c = "A" THEN SmallQuota ELSE Simulation] }

\* initialize (client.ts:41-52): the effective configuration
EffectiveConfig(cc) ==
    [accessToken |-> ExchangedToken,
     baseUrl |-> SdkBaseUrl,
     timeout |-> OrDefault(cc.timeout, DefaultTimeout),
     retryAttempts |-> OrDefault(cc.retryAttempts, DefaultRetryAttempts),
     retryDelay |-> OrDefault(cc.retryDelay, DefaultRetryDelay),
     rateLimit |-> [requests |-> OrDefault(cc.requests, DefaultRateLimitRequests),
                    window |-> OrDefault(cc.window, DefaultRateLimitWindow)],
     sdkMockMode |-> cc.sdkMockMode]

\* initialize (client.ts:54-58)
EffectiveRetryConfig(cfg) ==
    [attempts |-> cfg.retryAttempts, delay |-> cfg.retryDelay, backoffFactor |-> BackoffFactor]

UndefinedConfig ==
    [accessToken |-> "", baseUrl |-> "", timeout |-> 0, retryAttempts |-> 0, retryDelay |-> 0, rateLimit |-> [requests |-> 0, window |-> 0],
     sdkMockMode |-> FALSE]
UndefinedRetryConfig == [attempts |-> 0, delay |-> 0, backoffFactor |-> 0]
UndefinedRateLimitState == [requests |-> 0, resetTime |-> 0]

\* ------------------------------------------------------------------ errors
\* A thrown value.  bae: instanceof BufferAPIError; code/statusCode/message: its
\* fields (statusCode 0 = undefined); response: status of error.response (0 =
\* no response); bodyCode/bodyMessage: error.response.data.code/.message ("" =
\* absent); request: error.request is set.  History fields: att is the attempt
\* of the operation that raised the value, norm counts the normalisations it
\* went through, origin is the code the first normalisation assigned, raw the
\* response status of the failure the first normalisation received.
NoError ==
    [bae |-> FALSE, code |-> "", statusCode |-> 0, message |-> "", response |-> 0,
     bodyCode |-> "", bodyMessage |-> "", request |-> FALSE, att |-> 0, norm |-> 0, origin |-> "",
     raw |-> 0]

BufferAPIError(code, message, statusCode) ==
    [NoError EXCEPT !.bae = TRUE, !.code = code, !.message = message, !.statusCode = statusCode]

\* Failures the transport (axios adapter) can reject with
Statuses == {404, 500, 503}

\* An axios error that carries a response also carries the request
ResponseError(status, bodyCode, bodyMessage) ==
    [NoError EXCEPT !.response = status, !.bodyCode = bodyCode, !.bodyMessage = bodyMessage,
                    !.request = TRUE,
                    !.message = "Request failed with status code " \o ToString(status)]

NoResponseError == [NoError EXCEPT !.request = TRUE, !.message = "Network Error"]

PlainError == [NoError EXCEPT !.message = "Network Error"]

RawFailures ==
    { ResponseError(s, "", "") : s \in Statuses }
    \cup { ResponseError(503, "SERVICE_DOWN", "down for maintenance"), NoResponseError, PlainError }

\* Math.ceil(a / b) for a >= 0, b > 0
CeilDiv(a, b) == (a + b - 1) \div b

RateLimitMessage(waitTime) ==
    "Rate limit exceeded. Try again in " \o ToString(CeilDiv(waitTime, MsPerSecond)) \o " seconds."

\* --------------------------------------------------------- checkRateLimit
ResetWindowFixed(rls, cfg, t) ==
    IF t > rls.resetTime
    THEN [requests |-> 0, resetTime |-> cfg.window]
    ELSE rls

\* The window reset of checkRateLimit (client.ts:105-108)
ResetWindow(rls, cfg, t) ==
    IF t > rls.resetTime
    THEN [requests |-> 0, resetTime |-> t + cfg.window]
    ELSE rls

QuotaReachedLoose(rls, cfg) == rls.requests > cfg.requests

\* The quota test of checkRateLimit (client.ts:111)
QuotaReached(rls, cfg) == rls.requests >= cfg.requests

checkRateLimitLostUpdate(rls, cfg, t) ==
    LET r == ResetWindow(rls, cfg, t) IN
    IF QuotaReached(r, cfg)
    THEN [state |-> r, thrown |-> TRUE,
          error |-> BufferAPIError("RATE_LIMIT_EXCEEDED", RateLimitMessage(r.resetTime - t), 429)]
    ELSE [state |-> r, thrown |-> FALSE, error |-> NoError]

\* checkRateLimit at time t: the state it leaves and the value it throws, if any.
\* Its body has no await (client.ts:101-121), so it runs to completion in one step
checkRateLimit(rls, cfg, t) ==
    LET r == ResetWindow(rls, cfg, t) IN
    IF QuotaReached(r, cfg)
    THEN [state |-> r, thrown |-> TRUE,
          error |-> BufferAPIError("RATE_LIMIT_EXCEEDED", RateLimitMessage(r.resetTime - t), 429)]
    ELSE [state |-> [r EXCEPT !.requests = r.requests + 1], thrown |-> FALSE, error |-> NoError]

\* --------------------------------------------------------- handleAPIError
HttpCode(status) == "HTTP_" \o ToString(status)

Truthy(s, d) == IF s = "" THEN d ELSE s

Normalized(error, e) ==
    [e EXCEPT !.att = error.att, !.norm = error.norm + 1,
              !.origin = IF error.norm = 0 THEN e.code ELSE error.origin,
              !.raw = IF error.norm = 0 THEN error.response ELSE error.raw]

handleAPIErrorKeepsPlain(error) ==
    IF error.response # 0
    THEN Normalized(error, BufferAPIError(Truthy(error.bodyCode, HttpCode(error.response)),
                                           Truthy(error.bodyMessage, error.message),
                                           error.response))
    ELSE IF error.request
    THEN Normalized(error, BufferAPIError("NETWORK_ERROR", "No response received from Buffer API", 0))
    ELSE error

handleAPIErrorRequestFirst(error) ==
    IF error.request
    THEN Normalized(error, BufferAPIError("NETWORK_ERROR", "No response received from Buffer API", 0))
    ELSE IF error.response # 0
    THEN Normalized(error, BufferAPIError(Truthy(error.bodyCode, HttpCode(error.response)),
                                           Truthy(error.bodyMessage, error.message),
                                           error.response))
    ELSE Normalized(error, BufferAPIError("REQUEST_ERROR", error.message, 0))

\* client.ts:123-151
handleAPIError(error) ==
    IF error.response # 0
    THEN Normalized(error, BufferAPIError(Truthy(error.bodyCode, HttpCode(error.response)),
                                           Truthy(error.bodyMessage, error.message),
                                           error.response))
    ELSE IF error.request
    THEN Normalized(error, BufferAPIError("NETWORK_ERROR", "No response received from Buffer API", 0))
    ELSE Normalized(error, BufferAPIError("REQUEST_ERROR", error.message, 0))

\* ----------------------------------------------------------- retryRequest
retryableCodes == {"NETWORK_ERROR", "TIMEOUT", "HTTP_500", "HTTP_502", "HTTP_503"}

RECURSIVE Pow(_, _)
Pow(b, e) == IF e = 0 THEN 1 ELSE b * Pow(b, e - 1)

BackoffDelayOffByOne(rc, currentAttempt) == rc.delay * Pow(rc.backoffFactor, currentAttempt)

\* client.ts:172
BackoffDelay(rc, currentAttempt) == rc.delay * Pow(rc.backoffFactor, currentAttempt - 1)

RethrowsIgnoresAttempts(rc, currentAttempt, error) ==
    error.bae /\ error.code \notin retryableCodes

\* The catch block of retryRequest (client.ts:159-175): TRUE when the error is rethrown
Rethrows(rc, currentAttempt, error) ==
    \/ currentAttempt >= rc.attempts
    \/ error.bae /\ error.code \notin retryableCodes

\* ------------------------------------------------------ public operations
ListKinds == {"profiles.list", "posts.list"}
GetKinds == {"profiles.get", "posts.get", "posts.create", "posts.analytics",
             "analytics.posts", "analytics.summary", "analytics.insights"}
OpKinds == ListKinds \cup GetKinds

\* The code and status of the error a live operation throws on an envelope without data
MissingDataError(kind) ==
    CASE kind = "profiles.get"       -> BufferAPIError("PROFILE_NOT_FOUND", "Profile not found", 404)
      [] kind = "posts.get"          -> BufferAPIError("POST_NOT_FOUND", "Post not found", 404)
      [] kind = "posts.create"       -> BufferAPIError("POST_CREATE_FAILED", "Failed to create post", 0)
      [] kind = "posts.analytics"    -> BufferAPIError("ANALYTICS_NOT_FOUND", "Analytics not found", 404)
      [] kind = "analytics.posts"    -> BufferAPIError("POSTS_NOT_FOUND", "Analytics posts not found", 404)
      [] kind = "analytics.summary"  -> BufferAPIError("SUMMARY_NOT_FOUND", "Summary not found", 404)
      [] kind = "analytics.insights" -> BufferAPIError("INSIGHTS_NOT_FOUND", "Insights not found", 404)

\* ids of generateMockProfiles (client.ts:436-511) and one id outside the catalog
CatalogIds == {"profile_x_001", "profile_linkedin_002", "profile_facebook_003", "profile_instagram_004"}
ProfileIds == {"profile_x_001", "profile_unknown"}

\* ------------------------------------------------------------ synthesizer
\* The catalog of generateMockProfiles (client.ts:436-511), in its order
generateMockProfiles ==
    << [id |-> "profile_x_001", service |-> "x"],
       [id |-> "profile_linkedin_002", service |-> "linkedin"],
       [id |-> "profile_facebook_003", service |-> "facebook"],
       [id |-> "profile_instagram_004", service |-> "instagram"] >>

\* `undefined` as the result of Array.prototype.find
NoProfile == [id |-> "", service |-> ""]

findFirst(profiles, profileId) == profiles[1]

\* profiles.find(p => p.id === profileId) (client.ts:199)
find(profiles, profileId) ==
    LET hits == {i \in 1..Len(profiles) : profiles[i].id = profileId} IN
    IF hits = {} THEN NoProfile
    ELSE profiles[CHOOSE i \in hits : \A j \in hits : i <= j]

\* SpecPayload counts time in units of 30 minutes instead of milliseconds, so
\* that the length of a day (24 * 60 * 60 * 1000 ms, client.ts:597) stays small;
\* for up to 4 posts a day every offset the synthesizer computes is a whole
\* number of units, as it is a whole number of milliseconds in the program.
millisecondsPerDay == 48

\* new Date(t).toISOString().split('T')[0]: the UTC calendar day of t (a day number)
DateString(t) == t \div millisecondsPerDay

\* new Date('YYYY-MM-DD').getTime(): UTC midnight of that day
ParseDate(d) == d * millisecondsPerDay

\* Partial<AnalyticsOptions>: timeRange and period "" = omitted, start and end
\* are calendar days (Undefined = omitted), platforms <<>> = omitted
NoOptions ==
    [timeRange |-> "", start |-> Undefined, end |-> Undefined, period |-> "", platforms |-> <<>>]

\* timeRangeMap[timeRange] (client.ts:334-340, 653-659); 0 stands for a missing key
timeRangeMap(timeRange) ==
    CASE timeRange = "7d" -> 7
      [] timeRange = "30d" -> 30
      [] timeRange = "90d" -> 90
      [] timeRange = "1y" -> 365
      [] timeRange = "custom" -> 30
      [] OTHER -> 0

\* client.ts:288-302, called at time t
createCompleteAnalyticsOptions(options, t) ==
    LET defaultStart == DateString(t - 30 * millisecondsPerDay)
        defaultEnd == DateString(t)
    IN
    [timeRange |-> Truthy(options.timeRange, "30d"),
     start |-> IF options.start = Undefined THEN defaultStart ELSE options.start,
     end |-> IF options.end = Undefined THEN defaultEnd ELSE options.end,
     period |-> Truthy(options.period, "day"),
     platforms |-> options.platforms]

\* client.ts:333-350, called at time t
convertTimeRangeToDateRange(timeRange, t) ==
    LET days == OrDefault(timeRangeMap(timeRange), 30) IN
    [start |-> DateString(t - days * millisecondsPerDay), end |-> DateString(t)]

\* client.ts:305-330: the start, end and period parameters of the request URL
\* (Undefined and "" = not appended)
buildAnalyticsParams(options, t) ==
    LET range == IF options.start # Undefined \/ options.end # Undefined
                 THEN [start |-> options.start, end |-> options.end]
                 ELSE IF options.timeRange # ""
                 THEN convertTimeRangeToDateRange(options.timeRange, t)
                 ELSE convertTimeRangeToDateRange("30d", t)
    IN [start |-> range.start, end |-> range.end, period |-> options.period]

\* client.ts:644-662
getTimeRangeDays(options) ==
    IF options.start # Undefined /\ options.end # Undefined
    THEN CeilDiv(ParseDate(options.end) - ParseDate(options.start), millisecondsPerDay)
    ELSE OrDefault(timeRangeMap(Truthy(options.timeRange, "30d")), 30)

Min(a, b) == IF a <= b THEN a ELSE b

\* client.ts:665-675; the multipliers 0.5 and 0.3 as exact fractions
calculatePostCount(days, options) ==
    LET platformCount == OrDefault(Len(options.platforms), 4)
        n == days * platformCount
        scaled == CASE options.period = "week" -> n \div 2
                    [] options.period = "month" -> (3 * n) \div 10
                    [] OTHER -> n
    IN Min(scaled, 500)

platforms == <<"x", "linkedin", "facebook", "instagram">>

\* client.ts:592-594
platformsToUse(options) ==
    IF Len(options.platforms) > 0
    THEN SelectSeq(options.platforms, LAMBDA q : \E k \in 1..Len(platforms) : platforms[k] = q)
    ELSE platforms

\* client.ts:678-686
getProfileIdForPlatform(platform, fallbackId) ==
    LET hits == {k \in 1..Len(generateMockProfiles) : generateMockProfiles[k].service = platform} IN
    IF hits = {} THEN fallbackId ELSE generateMockProfiles[CHOOSE k \in hits : TRUE].id

\* Math.random() returns one of the values k / RandomSteps, 0 <= k < RandomSteps;
\* a random source is the sequence of numerators it hands out, draw after draw
RandomSteps == 8

RandomStreams == { [a |-> 0, b |-> 0], [a |-> 3, b |-> 1], [a |-> 5, b |-> 7] }

\* The numerator of the n-th value (n = 0, 1, ...) a call draws from its source
MathRandom(random, n) == (random.a * n + random.b) % RandomSteps

Max(a, b) == IF a >= b THEN a ELSE b

\* client.ts:688-696, in thousandths
getBaseEngagementForPlatform(platform) ==
    CASE platform = "x" -> 45
      [] platform = "linkedin" -> 54
      [] platform = "facebook" -> 63
      [] platform = "instagram" -> 71

\* client.ts:617-619 for the drawn numerator k: Math.max(0.01, base + (r - 0.5) * 0.02).
\* An engagement rate is kept as the numerator of a fraction over 1000 * RandomSteps
engagementRateOf(platform, k) ==
    Max(10 * RandomSteps,
        getBaseEngagementForPlatform(platform) * RandomSteps + 10 * (2 * k - RandomSteps))

\* client.ts:698-708 for the drawn numerator k
getPlatformReach(platform, k) ==
    LET range == CASE platform = "x" -> [min |-> 800, max |-> 8000]
                   [] platform = "linkedin" -> [min |-> 500, max |-> 3000]
                   [] platform = "facebook" -> [min |-> 1200, max |-> 12000]
                   [] platform = "instagram" -> [min |-> 600, max |-> 6000]
    IN (k * (range.max - range.min) + range.min * RandomSteps) \div RandomSteps

\* client.ts:710-718 for the drawn numerator k: the multiplier as the numerator
\* of a fraction over 10 * RandomSteps
getPlatformImpressionMultiplier(platform, k) ==
    LET multipliers == CASE platform = "x" -> 18
                         [] platform = "linkedin" -> 14
                         [] platform = "facebook" -> 22
                         [] platform = "instagram" -> 16
    IN multipliers * RandomSteps + 4 * k

generatePlatformMetricsRetweetsEverywhere(platform, engagementRate, reach) ==
    LET totalEngagement == (reach * engagementRate) \div (1000 * RandomSteps) IN
    [likes |-> (totalEngagement * 60) \div 100, comments |-> (totalEngagement * 15) \div 100,
     clicks |-> (totalEngagement * 10) \div 100, shares |-> 0,
     retweets |-> (totalEngagement * 15) \div 100]

\* client.ts:752-826; the weights in hundredths, the products taken exactly
generatePlatformMetrics(platform, engagementRate, reach) ==
    LET totalEngagement == (reach * engagementRate) \div (1000 * RandomSteps)
        dist == CASE platform = "x" -> [likes |-> 60, retweets |-> 15, comments |-> 15, clicks |-> 10]
                  [] platform = "linkedin" -> [likes |-> 50, comments |-> 25, shares |-> 15, clicks |-> 10]
                  [] platform = "facebook" -> [likes |-> 55, comments |-> 20, shares |-> 15, clicks |-> 10]
                  [] platform = "instagram" -> [likes |-> 75, comments |-> 15, saves |-> 8, clicks |-> 2]
        part(f) == (totalEngagement * (IF f \in DOMAIN dist THEN dist[f] ELSE 0)) \div 100
        baseMetrics == [likes |-> part("likes"), comments |-> part("comments"),
                        clicks |-> part("clicks"), shares |-> part("shares")]
    IN
    CASE platform = "x" ->
            [likes |-> baseMetrics.likes, comments |-> baseMetrics.comments,
             clicks |-> baseMetrics.clicks, shares |-> baseMetrics.shares,
             retweets |-> part("retweets")]
      [] platform = "linkedin" ->
            [likes |-> baseMetrics.likes, comments |-> baseMetrics.comments,
             clicks |-> baseMetrics.clicks, shares |-> part("shares")]
      [] platform = "facebook" ->
            [likes |-> baseMetrics.likes, comments |-> baseMetrics.comments,
             clicks |-> baseMetrics.clicks, shares |-> part("shares"),
             reactions |-> baseMetrics.likes]
      [] platform = "instagram" ->
            [likes |-> baseMetrics.likes, comments |-> baseMetrics.comments,
             clicks |-> baseMetrics.clicks, shares |-> baseMetrics.shares,
             saves |-> part("saves")]
      [] OTHER -> baseMetrics

\* client.ts:609: new Date(Date.now() - day * D - i * (D / dailyPostCount)); the
\* Date constructor drops the fraction of its argument
postDate(t, day, i, dailyPostCount) ==
    t - day * millisecondsPerDay - CeilDiv(i * millisecondsPerDay, dailyPostCount)

\* The inner loop of generateMockAnalytics (client.ts:604-637) for one day,
\* entered at i with postIndex posts pushed so far; g holds what the loops do
\* not change.  A post outside the start/end dates is skipped without
\* counting (`continue`); a pushed post draws three values from the random
\* source: the jitter of its rate, its reach, the jitter of its multiplier.
RECURSIVE postsOfDay(_, _, _, _, _, _)
postsOfDay(g, day, i, dailyPostCount, postIndex, analytics) ==
    IF ~(i < dailyPostCount /\ postIndex < g.totalPosts)
    THEN [postIndex |-> postIndex, analytics |-> analytics]
    ELSE
        LET date == postDate(g.t, day, i, dailyPostCount)
            platform == g.platformsToUse[(postIndex % Len(g.platformsToUse)) + 1]
            engagementRate == engagementRateOf(platform, MathRandom(g.random, 3 * postIndex))
            reach == getPlatformReach(platform, MathRandom(g.random, 3 * postIndex + 1))
            impressions ==
                (reach * getPlatformImpressionMultiplier(platform, MathRandom(g.random, 3 * postIndex + 2)))
                    \div (10 * RandomSteps)
        IN
        IF \/ g.options.start # Undefined /\ date < ParseDate(g.options.start)
           \/ g.options.end # Undefined /\ date > ParseDate(g.options.end)
        THEN postsOfDay(g, day, i + 1, dailyPostCount, postIndex, analytics)
        ELSE postsOfDay(g, day, i + 1, dailyPostCount, postIndex + 1,
                 Append(analytics,
                     [postId |-> "post_" \o platform \o "_" \o ToString(postIndex),
                      profileId |-> getProfileIdForPlatform(platform, g.profileId),
                      service |-> platform,
                      publishedAt |-> date,
                      metrics |-> generatePlatformMetrics(platform, engagementRate, reach),
                      engagementRate |-> engagementRate,
                      reach |-> reach,
                      impressions |-> impressions]))

\* The outer loop (client.ts:601-638) over the days fromDay .. toDay - 1, in
\* order, from the state r = [postIndex, analytics] the earlier days left;
\* dailyPostCount is fixed when a day begins.  The range is walked in two
\* halves, the first before the second, and the second half is left out once
\* totalPosts posts are pushed (its days push nothing then).
RECURSIVE analyticsLoop(_, _, _, _)
analyticsLoop(g, fromDay, toDay, r) ==
    IF fromDay >= toDay THEN r
    ELSE IF toDay = fromDay + 1
    THEN postsOfDay(g, fromDay, 0, Min(g.postsPerDay, g.totalPosts - r.postIndex),
                    r.postIndex, r.analytics)
    ELSE LET mid == (fromDay + toDay) \div 2
             firstHalf == analyticsLoop(g, fromDay, mid, r)
         IN IF firstHalf.postIndex >= g.totalPosts THEN firstHalf
            ELSE analyticsLoop(g, mid, toDay, firstHalf)

SortsBeforeAscending(a, b) == a.publishedAt < b.publishedAt

\* The comparator of the final sort (client.ts:640): a goes first when
\* b.publishedAt - a.publishedAt is negative
SortsBefore(a, b) == a.publishedAt > b.publishedAt

\* client.ts:583-641, called at time t with the random source `random`
generateMockAnalytics(profileId, options, t, random) ==
    LET timeRangeDays == getTimeRangeDays(options)
        totalPosts == calculatePostCount(timeRangeDays, options)
        postsPerDay == CeilDiv(totalPosts, timeRangeDays)
    IN
    IF timeRangeDays <= 0 THEN <<>>
    ELSE SortSeq(analyticsLoop([profileId |-> profileId, options |-> options, t |-> t,
                                random |-> random,
                                timeRangeDays |-> timeRangeDays, totalPosts |-> totalPosts,
                                postsPerDay |-> postsPerDay,
                                platformsToUse |-> platformsToUse(options)],
                               0, timeRangeDays, [postIndex |-> 0, analytics |-> <<>>]).analytics,
                 SortsBefore)

\* Object.values(metrics).reduce((metricSum, val) => metricSum + (val || 0), 0)
\* (client.ts:832)
RECURSIVE SumValues(_, _)
SumValues(metrics, fields) ==
    IF fields = {} THEN 0
    ELSE LET f == CHOOSE x \in fields : TRUE
         IN metrics[f] + SumValues(metrics, fields \ {f})

\* posts.reduce((sum, post) => sum + ..., 0) over posts[lo .. hi] (client.ts:831-833)
RECURSIVE SumMetrics(_, _, _)
SumMetrics(posts, lo, hi) ==
    IF lo > hi THEN 0
    ELSE IF lo = hi THEN SumValues(posts[lo].metrics, DOMAIN posts[lo].metrics)
    ELSE LET mid == (lo + hi) \div 2
         IN SumMetrics(posts, lo, mid) + SumMetrics(posts, mid + 1, hi)

\* values.reduce((sum, v) => sum + v, 0) over values[lo .. hi]
RECURSIVE SumSeq(_, _, _)
SumSeq(values, lo, hi) ==
    IF lo > hi THEN 0
    ELSE IF lo = hi THEN values[lo]
    ELSE LET mid == (lo + hi) \div 2
         IN SumSeq(values, lo, mid) + SumSeq(values, mid + 1, hi)

\* A mean of engagement rates: the sum of n rates and n, or 0 for none
\* (client.ts:835-837, 846-847)
MeanRate(rates) ==
    IF Len(rates) > 0 THEN [num |-> SumSeq(rates, 1, Len(rates)), den |-> Len(rates)]
    ELSE [num |-> 0, den |-> 1]

\* client.ts:839-841: the first post no later post beats
bestPost(posts) ==
    posts[CHOOSE i \in 1..Len(posts) :
            /\ \A j \in 1..Len(posts) : posts[j].engagementRate <= posts[i].engagementRate
            /\ \A j \in 1..(i - 1) : posts[j].engagementRate < posts[i].engagementRate]

\* client.ts:843-855
platformBreakdown(posts) ==
    LET entry(platform) ==
            LET platformPosts == SelectSeq(posts, LAMBDA post : post.service = platform) IN
            [platform |-> platform,
             postCount |-> Len(platformPosts),
             engagementRate |-> MeanRate([i \in 1..Len(platformPosts) |-> platformPosts[i].engagementRate]),
             reach |-> SumSeq([i \in 1..Len(platformPosts) |-> platformPosts[i].reach],
                              1, Len(platformPosts))]
    IN SelectSeq([k \in 1..Len(platforms) |-> entry(platforms[k])], LAMBDA item : item.postCount > 0)

NoSummary ==
    [profileId |-> "", timeRange |-> "", totalPosts |-> 0, totalEngagement |-> 0,
     averageEngagementRate |-> [num |-> 0, den |-> 1], bestPerformingPost |-> "",
     topMetrics |-> [likes |-> 0, comments |-> 0, shares |-> 0, clicks |-> 0, reach |-> 0,
                     impressions |-> 0],
     platformBreakdown |-> <<>>, trending |-> [direction |-> "", percentage |-> 0]]

\* The summary of the posts `posts` (client.ts:831-882); k is the numerator
\* drawn for the trend percentage
SummaryOf(profileId, options, posts, k) ==
    LET avgEngagementRate == MeanRate([i \in 1..Len(posts) |-> posts[i].engagementRate])
        total(F(_)) == SumSeq([i \in 1..Len(posts) |-> F(posts[i])], 1, Len(posts))
        metric(post, f) == IF f \in DOMAIN post.metrics THEN post.metrics[f] ELSE 0
    IN
    [profileId |-> profileId,
     timeRange |-> Truthy(options.timeRange, "30d"),
     totalPosts |-> Len(posts),
     totalEngagement |-> SumMetrics(posts, 1, Len(posts)),
     averageEngagementRate |-> avgEngagementRate,
     bestPerformingPost |-> IF Len(posts) > 0 THEN bestPost(posts).postId
                            ELSE "post_" \o profileId \o "_best",
     topMetrics |-> [likes |-> total(LAMBDA post : metric(post, "likes")),
                     comments |-> total(LAMBDA post : metric(post, "comments")),
                     shares |-> total(LAMBDA post : metric(post, "shares")),
                     clicks |-> total(LAMBDA post : metric(post, "clicks")),
                     reach |-> total(LAMBDA post : post.reach),
                     impressions |-> total(LAMBDA post : post.impressions)],
     platformBreakdown |-> platformBreakdown(posts),
     trending |-> [direction |-> IF avgEngagementRate.num > 50 * RandomSteps * avgEngagementRate.den
                                 THEN "up" ELSE "down",
                   percentage |-> (k * 20) \div RandomSteps + 5]]

generateMockSummaryNominal(profileId, options, t, random) ==
    LET posts == generateMockAnalytics(profileId, options, t, random) IN
    [SummaryOf(profileId, options, posts, MathRandom(random, 3 * Len(posts)))
        EXCEPT !.totalPosts = calculatePostCount(getTimeRangeDays(options), options)]

generateMockSummaryRedraws(profileId, options, t, random) ==
    LET posts == generateMockAnalytics(profileId, options, t, random)
        again == generateMockAnalytics(profileId, options, t,
                                       [a |-> random.a, b |-> (random.b + 1) % RandomSteps])
    IN
    [SummaryOf(profileId, options, posts, MathRandom(random, 3 * Len(posts)))
        EXCEPT !.platformBreakdown = platformBreakdown(again)]

\* client.ts:828-883, called at time t with the random source `random`: the
\* posts take three draws each, the trend percentage the next one
generateMockSummary(profileId, options, t, random) ==
    LET posts == generateMockAnalytics(profileId, options, t, random) IN
    SummaryOf(profileId, options, posts, MathRandom(random, 3 * Len(posts)))

\* The simulation branch of analytics.posts (client.ts:361-364, 386) at time t
analyticsPosts(profileId, options, t, random) ==
    generateMockAnalytics(profileId, createCompleteAnalyticsOptions(options, t), t, random)

\* The simulation branch of analytics.summary (client.ts:361-364, 397) at time t
analyticsSummary(profileId, options, t, random) ==
    generateMockSummary(profileId, createCompleteAnalyticsOptions(options, t), t, random)

\* 3600000 ms
OneHour == millisecondsPerDay \div 24

\* An ISO 8601 timestamp: its calendar day and the time within the day
NoDate == [date |-> Undefined, time |-> Undefined]

\* new Date(t).toISOString()
toISOString(t) == [date |-> t \div millisecondsPerDay, time |-> t % millisecondsPerDay]

\* new Date(iso).getTime()
getTime(iso) == iso.date * millisecondsPerDay + iso.time

\* PostListOptions (types.ts:182-188): count, Undefined = omitted; the
\* simulation reads no other field
NoListOptions == [count |-> Undefined]

\* CreatePostData (types.ts:191-203): text and scheduled_at (NoDate = omitted);
\* also stands for an omitted `data`, whose every field reads as undefined
NoData == [text |-> "", scheduled_at |-> NoDate]

\* A post's statistics drawn from the random source, from draw n on (client.ts:528-536)
RandomStatistics(random, n) ==
    [reach |-> (MathRandom(random, n) * 10000) \div RandomSteps,
     clicks |-> (MathRandom(random, n + 1) * 500) \div RandomSteps,
     retweets |-> (MathRandom(random, n + 2) * 100) \div RandomSteps,
     favorites |-> (MathRandom(random, n + 3) * 200) \div RandomSteps,
     mentions |-> (MathRandom(random, n + 4) * 50) \div RandomSteps,
     comments |-> (MathRandom(random, n + 5) * 30) \div RandomSteps,
     shares |-> (MathRandom(random, n + 6) * 40) \div RandomSteps]

ZeroStatistics ==
    [reach |-> 0, clicks |-> 0, retweets |-> 0, favorites |-> 0, mentions |-> 0,
     comments |-> 0, shares |-> 0]

NoPost ==
    [id |-> "", profile_id |-> "", status |-> "", text |-> "", created_at |-> 0, due_at |-> 0,
     sent_at |-> Undefined, statistics |-> ZeroStatistics]

\* client.ts:513-540, called at time t: post i (from 0) is the (i + 1)-th of
\* the list and takes the draws 9 i .. 9 i + 8
generateMockPosts(profileId, options, t, random) ==
    LET count == OrDefault(options.count, 20) IN
    [j \in 1..count |->
        LET i == j - 1 IN
        [id |-> "post_" \o profileId \o "_" \o ToString(i),
         profile_id |-> profileId,
         status |-> IF 5 * MathRandom(random, 9 * i) > 4 * RandomSteps THEN "buffer" ELSE "sent",
         text |-> "Sample post content " \o ToString(i + 1),
         created_at |-> t - i * millisecondsPerDay,
         due_at |-> t + i * OneHour,
         sent_at |-> IF 2 * MathRandom(random, 9 * i + 1) > RandomSteps
                     THEN t - i * OneHour ELSE Undefined,
         statistics |-> RandomStatistics(random, 9 * i + 2)]]

\* client.ts:542-561, called at time t
generateMockPost(postId, data, t) ==
    [id |-> postId,
     profile_id |-> "profile_mock_001",
     status |-> "buffer",
     text |-> Truthy(data.text, "Mock post content for " \o postId),
     created_at |-> t,
     due_at |-> IF data.scheduled_at # NoDate THEN getTime(data.scheduled_at) ELSE t + OneHour,
     sent_at |-> Undefined,
     statistics |-> ZeroStatistics]

NoPostAnalytics ==
    [postId |-> "", profileId |-> "", service |-> "", publishedAt |-> 0,
     metrics |-> [likes |-> 0], engagementRate |-> 0, reach |-> 0, impressions |-> 0]

\* client.ts:563-581, called at time t: eight draws, in the order of the literal;
\* Math.random() * 0.1 as a numerator over 1000 * RandomSteps
generateMockPostAnalytics(postId, t, random) ==
    [postId |-> postId,
     profileId |-> "profile_mock_001",
     service |-> "x",
     publishedAt |-> t - millisecondsPerDay,
     metrics |-> [likes |-> (MathRandom(random, 0) * 200) \div RandomSteps,
                  comments |-> (MathRandom(random, 1) * 50) \div RandomSteps,
                  shares |-> (MathRandom(random, 2) * 30) \div RandomSteps,
                  clicks |-> (MathRandom(random, 3) * 100) \div RandomSteps,
                  retweets |-> (MathRandom(random, 4) * 25) \div RandomSteps],
     engagementRate |-> 100 * MathRandom(random, 5),
     reach |-> (MathRandom(random, 6) * 5000) \div RandomSteps,
     impressions |-> (MathRandom(random, 7) * 10000) \div RandomSteps]

\* --------------------------------------------------------------- payloads
AnalyticsKinds == {"analytics.posts", "analytics.summary", "analytics.insights"}

NoParams == [start |-> Undefined, end |-> Undefined, period |-> ""]

\* The last call followed: mode "" (none) | "simulation" | "live", its arguments,
\* the time of the call, outcome "" | "resolved" | "rejected", the error thrown
\* or the value returned (profile, analytics, summary by kind), the options as
\* createCompleteAnalyticsOptions completed them (simulation) and the URL
\* parameters buildAnalyticsParams built (live)
\* args: the further arguments of the call (postId, list options, post data)
\* and the random source it draws from; posts, post and postAnalytics: the
\* values posts.list, posts.get / posts.create and posts.analytics return
NoArgs ==
    [postId |-> "", listOptions |-> NoListOptions, data |-> NoData, random |-> [a |-> 0, b |-> 0]]

NoCall ==
    [mode |-> "", client |-> "", kind |-> "", profileId |-> "", options |-> NoOptions, at |-> 0,
     outcome |-> "", err |-> NoError, profile |-> NoProfile, analytics |-> <<>>,
     summary |-> NoSummary, complete |-> NoOptions, params |-> NoParams,
     args |-> NoArgs, posts |-> <<>>, post |-> NoPost, postAnalytics |-> NoPostAnalytics]

\* The simulation branch of the public operation k.kind (client.ts:186-188,
\* 197-204, 219-221, 239-241, 253-255, 270-272, 361-364) called at time k.at
Simulated(k) ==
    LET complete == createCompleteAnalyticsOptions(k.options, k.at)
        profile == find(generateMockProfiles, k.profileId)
    IN
    CASE k.kind = "profiles.get" ->
            IF profile = NoProfile
            THEN [k EXCEPT !.outcome = "rejected",
                           !.err = BufferAPIError("PROFILE_NOT_FOUND",
                                                  "Profile " \o k.profileId \o " not found", 404)]
            ELSE [k EXCEPT !.outcome = "resolved", !.profile = profile]
      [] k.kind = "analytics.posts" ->
            [k EXCEPT !.outcome = "resolved", !.complete = complete,
                      !.analytics = analyticsPosts(k.profileId, k.options, k.at, k.args.random)]
      [] k.kind = "analytics.summary" ->
            \* analytics keeps the posts generateMockSummary generated (client.ts:829)
            [k EXCEPT !.outcome = "resolved", !.complete = complete,
                      !.summary = analyticsSummary(k.profileId, k.options, k.at, k.args.random),
                      !.analytics = analyticsPosts(k.profileId, k.options, k.at, k.args.random)]
      [] k.kind = "analytics.insights" ->
            [k EXCEPT !.outcome = "resolved", !.complete = complete]
      [] k.kind = "posts.list" ->
            [k EXCEPT !.outcome = "resolved",
                      !.posts = generateMockPosts(k.profileId, k.args.listOptions, k.at, k.args.random)]
      [] k.kind = "posts.get" ->
            [k EXCEPT !.outcome = "resolved", !.post = generateMockPost(k.args.postId, NoData, k.at)]
      [] k.kind = "posts.create" ->
            [k EXCEPT !.outcome = "resolved",
                      !.post = generateMockPost("mock_" \o ToString(k.at), k.args.data, k.at)]
      [] k.kind = "posts.analytics" ->
            [k EXCEPT !.outcome = "resolved",
                      !.postAnalytics = generateMockPostAnalytics(k.args.postId, k.at, k.args.random)]
      [] OTHER -> [k EXCEPT !.outcome = "resolved"]

\* ------------------------------------------------------------------ tasks
\* pc: idle | req (in the request interceptors) | inflight (dispatched) |
\*     resp (in the response error handlers) | sleep (backoff) | resolved | rejected
\* attempt: currentAttempt of retryRequest (0: retryRequest not entered)
\* n: number of interceptor pairs in the chain axios built for the current attempt
\* idx: the interceptor that runs next;  err: the rejection travelling down the chain,
\*      during the backoff the value retryRequest caught, once rejected the value
\*      the caller receives
\* History fields: sent (transport dispatches of the task), limited (the current
\* attempt was rejected by a rate-limit check), everLimited, allRetryable (every
\* transport outcome so far was a failure of a retryable kind), expired (the
\* window of the task's client had elapsed when the current attempt began), first (the error
\* frame of attempt 1 caught and still holds while a later attempt runs).
\* noData: the envelope of the response the task received carried no `data`.
\* wake: the time the backoff timer of the sleeping task fires.
\* seen, win, at: the counter value the current attempt's own rate-limit check
\* read when it admitted the attempt, the resetTime of the window it read it
\* in, and the time of the check.
IdleOp ==
    [pc |-> "idle", client |-> "", kind |-> "", attempt |-> 0, n |-> 0, idx |-> 0,
     err |-> NoError, value |-> "", sent |-> 0, limited |-> FALSE, everLimited |-> FALSE,
     allRetryable |-> TRUE, expired |-> FALSE, first |-> NoError, noData |-> FALSE, wake |-> 0,
     seen |-> Undefined, win |-> 0, at |-> 0]

Running(o) == o.pc \in {"req", "inflight", "resp", "sleep"}
Settled(o) == o.pc \in {"resolved", "rejected"}

\* httpClient.get/post: axios builds the chain from the interceptors registered now
BeginRequest(o) ==
    LET n == Len(interceptors) IN
    [o EXCEPT !.n = n, !.idx = n, !.err = NoError, !.limited = FALSE, !.wake = 0,
              !.seen = Undefined, !.win = 0, !.at = 0,
              !.expired = initialized[o.client] /\ now > rateLimitState[o.client].resetTime,
              !.pc = IF n = 0 THEN "inflight" ELSE "req",
              !.sent = IF n = 0 THEN o.sent + 1 ELSE o.sent]

RethrownFirst(o, e) == IF o.attempt > 1 THEN o.first ELSE e

\* `throw error` of retryRequest (client.ts:161, 168)
Rethrown(o, e) == e

\* retryRequest's catch (client.ts:159-175) for the value e thrown by requestFn
Catch(o, e) ==
    LET rc == retryConfig[o.client] IN
    IF Rethrows(rc, o.attempt, e)
    THEN [o EXCEPT !.pc = "rejected", !.err = Rethrown(o, e)]
    ELSE [o EXCEPT !.pc = "sleep", !.err = e,
                   !.first = IF o.attempt = 1 THEN e ELSE o.first,
                   !.wake = now + BackoffDelay(rc, o.attempt)]

ThrownSwallowed(o, e) ==
    IF o.kind = "initialize" THEN [o EXCEPT !.pc = "resolved", !.err = e] ELSE Catch(o, e)

\* The rejection of httpClient.get/post reaches its awaiter: exchangeCodeForTokens
\* is awaited by initialize directly (client.ts:39), everything else by retryRequest
Thrown(o, e) ==
    IF o.kind = "initialize" THEN [o EXCEPT !.pc = "rejected", !.err = e] ELSE Catch(o, e)

\* ------------------------------------------------------------- simulation
\* The sdkMockMode test that opens every public operation (client.ts:186, 197,
\* 219, 239, 253, 270, 361)
UsesSynthesizerExceptCreate(c, kind) == config[c].sdkMockMode /\ kind # "posts.create"

UsesSynthesizer(c, kind) == config[c].sdkMockMode

\* The settled task of a simulation-mode operation: only profiles.get consults
\* the catalog (client.ts:198-203)
Synthesized(o, profileId) ==
    IF o.kind = "profiles.get" /\ find(generateMockProfiles, profileId) = NoProfile
    THEN [o EXCEPT !.pc = "rejected",
                   !.err = BufferAPIError("PROFILE_NOT_FOUND", "Profile " \o profileId \o " not found", 404)]
    ELSE [o EXCEPT !.pc = "resolved", !.value = "mock"]

\* ---------------------------------------------------------------- actions
Init ==
    /\ now = 0
    /\ interceptors = <<>>
    /\ clientConfig \in ConfigChoices
    /\ initialized = [c \in Clients |-> FALSE]
    /\ config = [c \in Clients |-> UndefinedConfig]
    /\ retryConfig = [c \in Clients |-> UndefinedRetryConfig]
    /\ rateLimitState = [c \in Clients |-> UndefinedRateLimitState]
    /\ ops = [p \in Procs |-> IdleOp]
    /\ admitted = [c \in Clients |-> 0]
    /\ call = NoCall

PendingInits == Cardinality({p \in Procs : ops[p].kind = "initialize" /\ Running(ops[p])})

\* initialize() is called: the token exchange is posted (client.ts:39, 424)
StartInitialize(p, c) ==
    /\ ops[p].pc = "idle"
    /\ Len(interceptors) + PendingInits < MaxInterceptors
    /\ ops' = [ops EXCEPT ![p] = BeginRequest([IdleOp EXCEPT !.client = c, !.kind = "initialize"])]
    /\ UNCHANGED <<call, now, interceptors, clientConfig, initialized, config, retryConfig,
                   rateLimitState, admitted>>

\* A public operation is called on an initialized client
StartOperation(p, c, kind, profileId) ==
    /\ ops[p].pc = "idle"
    /\ initialized[c]
    /\ LET o == [IdleOp EXCEPT !.client = c, !.kind = kind] IN
       ops' = [ops EXCEPT ![p] = IF UsesSynthesizer(c, kind)
                                 THEN Synthesized(o, profileId)
                                 ELSE BeginRequest([o EXCEPT !.attempt = 1])]
    /\ UNCHANGED <<call, now, interceptors, clientConfig, initialized, config, retryConfig,
                   rateLimitState, admitted>>

\* One request interceptor of the chain runs: checkRateLimit of the client that
\* registered it (client.ts:84-87)
RequestInterceptor(p) ==
    LET o == ops[p]
        c == interceptors[o.idx]
        r == checkRateLimit(rateLimitState[c], config[c].rateLimit, now)
        reset == now > rateLimitState[c].resetTime
        lastOwn == o.client = c /\ \A j \in 1..(o.idx - 1) : interceptors[j] # c
        base == IF reset THEN 0 ELSE admitted[c]
        \* the counter value and the window this attempt's own check read
        own == IF o.client = c
               THEN [o EXCEPT !.seen = ResetWindow(rateLimitState[c], config[c].rateLimit, now).requests,
                              !.win = r.state.resetTime, !.at = now]
               ELSE o
    IN
    /\ o.pc = "req"
    /\ rateLimitState' = [rateLimitState EXCEPT ![c] = r.state]
    /\ admitted' = [admitted EXCEPT ![c] = IF ~r.thrown /\ lastOwn THEN base + 1 ELSE base]
    /\ ops' = [ops EXCEPT ![p] =
         IF r.thrown
         THEN [o EXCEPT !.pc = "resp", !.idx = 1, !.limited = TRUE, !.everLimited = TRUE,
                        !.err = [r.error EXCEPT !.att = o.attempt]]
         ELSE IF o.idx = 1
         THEN [own EXCEPT !.pc = "inflight", !.idx = 0, !.sent = o.sent + 1]
         ELSE [own EXCEPT !.idx = o.idx - 1]]
    /\ UNCHANGED <<call, now, interceptors, clientConfig, initialized, config, retryConfig>>

\* initialize after the exchange resolved (client.ts:41-71)
SetUp(c) ==
    /\ config' = [config EXCEPT ![c] = EffectiveConfig(clientConfig[c])]
    /\ retryConfig' = [retryConfig EXCEPT ![c] = EffectiveRetryConfig(EffectiveConfig(clientConfig[c]))]
    /\ rateLimitState' = [rateLimitState EXCEPT ![c] =
            [requests |-> 0, resetTime |-> now + EffectiveConfig(clientConfig[c]).rateLimit.window]]
    /\ interceptors' = Append(interceptors, c)
    /\ initialized' = [initialized EXCEPT ![c] = TRUE]
    /\ admitted' = [admitted EXCEPT ![c] = 0]

ReceivedUnchecked(o, hasData) ==
    IF hasData THEN [o EXCEPT !.pc = "resolved", !.value = "data", !.allRetryable = FALSE]
    ELSE IF o.kind \in ListKinds
    THEN [o EXCEPT !.pc = "resolved", !.value = "[]", !.allRetryable = FALSE, !.noData = TRUE]
    ELSE [o EXCEPT !.pc = "resolved", !.value = "undefined", !.allRetryable = FALSE, !.noData = TRUE]

\* What a live operation does with a response (client.ts:192, 208-211, 234,
\* 245-248, 262-265, 278-281, 371-375)
Received(o, hasData) ==
    IF hasData THEN [o EXCEPT !.pc = "resolved", !.value = "data", !.allRetryable = FALSE]
    ELSE IF o.kind \in ListKinds
    THEN [o EXCEPT !.pc = "resolved", !.value = "[]", !.allRetryable = FALSE, !.noData = TRUE]
    ELSE Catch([o EXCEPT !.allRetryable = FALSE, !.noData = TRUE],
               [MissingDataError(o.kind) EXCEPT !.att = o.attempt])

\* The transport answers with a 2xx response; the response interceptors pass it on
TransportResponds(p, hasData) ==
    LET o == ops[p] IN
    /\ o.pc = "inflight"
    /\ IF o.kind = "initialize"
       THEN IF hasData
            THEN /\ SetUp(o.client)
                 /\ ops' = [ops EXCEPT ![p] = [o EXCEPT !.pc = "resolved", !.value = "client"]]
            ELSE \* response.data is undefined: `response?.data.access_token` throws a TypeError
                 /\ ops' = [ops EXCEPT ![p] = [o EXCEPT !.pc = "rejected",
                        !.err = [NoError EXCEPT !.message = "TypeError", !.att = 1]]]
                 /\ UNCHANGED <<interceptors, initialized, config, retryConfig,
                                rateLimitState, admitted>>
       ELSE /\ ops' = [ops EXCEPT ![p] = Received(o, hasData)]
            /\ UNCHANGED <<interceptors, initialized, config, retryConfig,
                           rateLimitState, admitted>>
    /\ UNCHANGED <<call, now, clientConfig>>

\* The transport rejects
TransportFails(p, raw) ==
    LET o == ops[p]
        e == [raw EXCEPT !.att = o.attempt]
        oo == [o EXCEPT !.allRetryable = o.allRetryable /\ handleAPIError(raw).code \in retryableCodes]
    IN
    /\ o.pc = "inflight"
    /\ ops' = [ops EXCEPT ![p] = IF o.n = 0 THEN Thrown(oo, e)
                                 ELSE [oo EXCEPT !.pc = "resp", !.idx = 1, !.err = e]]
    /\ UNCHANGED <<call, now, interceptors, clientConfig, initialized, config, retryConfig,
                   rateLimitState, admitted>>

\* One response error handler of the chain runs (client.ts:92-94)
ResponseInterceptor(p) ==
    LET o == ops[p]
        e == handleAPIError(o.err)
    IN
    /\ o.pc = "resp"
    /\ ops' = [ops EXCEPT ![p] = IF o.idx = o.n THEN Thrown(o, e)
                                 ELSE [o EXCEPT !.idx = o.idx + 1, !.err = e]]
    /\ UNCHANGED <<call, now, interceptors, clientConfig, initialized, config, retryConfig,
                   rateLimitState, admitted>>

\* The backoff timer fires and retryRequest calls requestFn again (client.ts:173-175)
Wake(p) ==
    LET o == ops[p] IN
    /\ o.pc = "sleep"
    /\ now >= o.wake
    /\ ops' = [ops EXCEPT ![p] = BeginRequest([o EXCEPT !.attempt = o.attempt + 1])]
    /\ UNCHANGED <<call, now, interceptors, clientConfig, initialized, config, retryConfig,
                   rateLimitState, admitted>>

\* The caller has received the outcome; the task slot is free again
Return(p) ==
    /\ Settled(ops[p])
    /\ ops' = [ops EXCEPT ![p] = IdleOp]
    /\ UNCHANGED <<call, now, interceptors, clientConfig, initialized, config, retryConfig,
                   rateLimitState, admitted>>

Tick ==
    /\ now < MaxTime
    /\ now' = now + 1
    /\ UNCHANGED <<call, interceptors, clientConfig, initialized, config, retryConfig,
                   rateLimitState, ops, admitted>>

Next ==
    \/ \E p \in Slots, c \in Clients : StartInitialize(p, c)
    \/ \E p \in Slots, c \in Clients, kind \in OpKinds, id \in ProfileIds : StartOperation(p, c, kind, id)
    \/ \E p \in Slots : RequestInterceptor(p)
    \/ \E p \in Slots, hasData \in BOOLEAN : TransportResponds(p, hasData)
    \/ \E p \in Slots, raw \in RawFailures : TransportFails(p, raw)
    \/ \E p \in Slots : ResponseInterceptor(p)
    \/ \E p \in Slots : Wake(p)
    \/ \E p \in Slots : Return(p)
    \/ Tick

Spec == Init /\ [][Next]_vars

\* -------------------------------------------- retryRequest on any requestFn
\* retryRequest (client.ts:153-177) takes any requestFn: the values it may throw
ThrownValues ==
    { BufferAPIError(code, "", 0) :
        code \in retryableCodes \cup {"RATE_LIMIT_EXCEEDED", "REQUEST_ERROR", "PROFILE_NOT_FOUND",
                                        "POST_CREATE_FAILED"} }
    \cup { [NoError EXCEPT !.message = "TypeError"] }

InitRetry ==
    /\ now = 0
    /\ interceptors = <<>>
    /\ clientConfig \in ConfigChoices
    /\ initialized = [c \in Clients |-> TRUE]
    /\ config = [c \in Clients |-> EffectiveConfig(clientConfig[c])]
    /\ retryConfig = [c \in Clients |-> EffectiveRetryConfig(EffectiveConfig(clientConfig[c]))]
    /\ rateLimitState = [c \in Clients |->
            [requests |-> 0, resetTime |-> EffectiveConfig(clientConfig[c]).rateLimit.window]]
    /\ ops = [p \in Procs |-> IdleOp]
    /\ admitted = [c \in Clients |-> 0]
    /\ call = NoCall

\* retryRequest(requestFn) is entered with currentAttempt = 1
StartRetryRequest(p, c) ==
    /\ ops[p].pc = "idle"
    /\ ops' = [ops EXCEPT ![p] = [IdleOp EXCEPT !.client = c, !.kind = "requestFn",
                                                 !.attempt = 1, !.pc = "call"]]
    /\ UNCHANGED <<call, now, interceptors, clientConfig, initialized, config, retryConfig,
                   rateLimitState, admitted>>

\* `await requestFn()` throws v (client.ts:158-159)
RequestFnThrows(p, v) ==
    /\ ops[p].pc = "call"
    /\ ops' = [ops EXCEPT ![p] = Catch(ops[p], [v EXCEPT !.att = ops[p].attempt])]
    /\ UNCHANGED <<call, now, interceptors, clientConfig, initialized, config, retryConfig,
                   rateLimitState, admitted>>

\* `return await requestFn()` (client.ts:158)
RequestFnResolves(p) ==
    /\ ops[p].pc = "call"
    /\ ops' = [ops EXCEPT ![p] = [ops[p] EXCEPT !.pc = "resolved", !.value = "data"]]
    /\ UNCHANGED <<call, now, interceptors, clientConfig, initialized, config, retryConfig,
                   rateLimitState, admitted>>

\* The backoff timer fires: retryRequest(requestFn, currentAttempt + 1) (client.ts:173-175)
WakeRetry(p) ==
    /\ ops[p].pc = "sleep"
    /\ now >= ops[p].wake
    /\ ops' = [ops EXCEPT ![p] = [ops[p] EXCEPT !.pc = "call", !.attempt = ops[p].attempt + 1,
                                                 !.err = NoError, !.wake = 0]]
    /\ UNCHANGED <<call, now, interceptors, clientConfig, initialized, config, retryConfig,
                   rateLimitState, admitted>>

NextRetry ==
    \/ \E p \in Slots, c \in Clients : StartRetryRequest(p, c)
    \/ \E p \in Slots, v \in ThrownValues : RequestFnThrows(p, v)
    \/ \E p \in Slots : RequestFnResolves(p)
    \/ \E p \in Slots : WakeRetry(p)
    \/ \E p \in Slots : Return(p)
    \/ Tick

SpecRetry == InitRetry /\ [][NextRetry]_vars

\* ------------------------------------- concurrent operations on one client
\* Operations started without awaiting each other (Promise.all over calls of
\* one client): their interceptor runs, transport outcomes and backoff timers
\* interleave at every await
ConcurrentConfigs == { [A |-> LargeQuota, B |-> SmallQuota], [A |-> SmallQuota, B |-> LargeQuota] }

\* Client A is initialized at time 0 with one of the configurations `configs`
InitOneClient(configs) ==
    /\ now = 0
    /\ interceptors = <<"A">>
    /\ clientConfig \in configs
    /\ initialized = [c \in Clients |-> c = "A"]
    /\ config = [c \in Clients |-> IF c = "A" THEN EffectiveConfig(clientConfig[c])
                                   ELSE UndefinedConfig]
    /\ retryConfig = [c \in Clients |-> IF c = "A" THEN EffectiveRetryConfig(EffectiveConfig(clientConfig[c]))
                                        ELSE UndefinedRetryConfig]
    /\ rateLimitState = [c \in Clients |->
            IF c = "A" THEN [requests |-> 0, resetTime |-> EffectiveConfig(clientConfig[c]).rateLimit.window]
            ELSE UndefinedRateLimitState]
    /\ ops = [p \in Procs |-> IdleOp]
    /\ admitted = [c \in Clients |-> 0]
    /\ call = NoCall

InitConcurrent == InitOneClient(ConcurrentConfigs)

NextConcurrent ==
    \/ \E p \in Procs, kind \in {"profiles.list", "posts.get"} :
            StartOperation(p, "A", kind, "profile_x_001")
    \/ \E p \in Procs : RequestInterceptor(p)
    \/ \E p \in Procs, hasData \in BOOLEAN : TransportResponds(p, hasData)
    \/ \E p \in Procs, raw \in {NoResponseError, PlainError} : TransportFails(p, raw)
    \/ \E p \in Procs : ResponseInterceptor(p)
    \/ \E p \in Procs : Wake(p)
    \/ \E p \in Procs : Return(p)
    \/ Tick

SpecConcurrent == InitConcurrent /\ [][NextConcurrent]_vars

\* --------------------------------------------------------------- progress
\* The clock of the model stops at MaxTime: a backoff timer set for a later
\* time fires once the clock has reached MaxTime (client.ts:173-175, 179-181)
WakeLate(p) ==
    LET o == ops[p] IN
    /\ o.pc = "sleep"
    /\ now = MaxTime
    /\ o.wake > now
    /\ ops' = [ops EXCEPT ![p] = BeginRequest([o EXCEPT !.attempt = o.attempt + 1])]
    /\ UNCHANGED <<call, now, interceptors, clientConfig, initialized, config, retryConfig,
                   rateLimitState, admitted>>

NextLive ==
    \/ \E p \in Procs : StartOperation(p, "A", "posts.get", "profile_x_001")
    \/ \E p \in Procs : RequestInterceptor(p)
    \/ \E p \in Procs, hasData \in BOOLEAN : TransportResponds(p, hasData)
    \/ \E p \in Procs, raw \in {NoResponseError, PlainError} : TransportFails(p, raw)
    \/ \E p \in Procs : ResponseInterceptor(p)
    \/ \E p \in Procs : Wake(p)
    \/ \E p \in Procs : WakeLate(p)
    \/ \E p \in Procs : Return(p)
    \/ Tick

\* Time passes, the event loop runs every continuation that is ready, every
\* transport attempt settles and every timer fires
Fairness ==
    /\ WF_vars(Tick)
    /\ \A p \in Procs :
          /\ WF_vars(RequestInterceptor(p))
          /\ WF_vars((\E hasData \in BOOLEAN : TransportResponds(p, hasData))
                      \/ (\E raw \in {NoResponseError, PlainError} : TransportFails(p, raw)))
          /\ WF_vars(ResponseInterceptor(p))
          /\ WF_vars(Wake(p))
          /\ WF_vars(WakeLate(p))

\* Two attempts per operation and a quota that two operations can use up
TwoAttempts ==
    [accessToken |-> "test-token", baseUrl |-> "", timeout |-> Undefined, retryAttempts |-> 2,
     retryDelay |-> 1, requests |-> 3, window |-> 4, sdkMockMode |-> FALSE]

InitLive == InitOneClient({ [A |-> TwoAttempts, B |-> SmallQuota] })

SpecLive == InitLive /\ [][NextLive]_vars /\ Fairness

\* ------------------------------ what the operations return and what they send
\* Call times: midnight UTC, 00:30, 06:30 and 23:30 of one day
PayloadTimes == { ParseDate(400) + h : h \in {0, 1, 13, 47} }

PayloadProfileIds == CatalogIds \cup {"profile_unknown"}

\* Option bags: nothing, every shorthand and an unknown one, explicit dates
\* with and without a shorthand, one date only, a platform filter, a period
AnalyticsOptionChoices ==
    {NoOptions}
    \cup { [NoOptions EXCEPT !.timeRange = r] : r \in {"7d", "30d", "90d", "1y", "custom", "2w"} }
    \cup { [NoOptions EXCEPT !.start = 398, !.end = 401],
           [NoOptions EXCEPT !.start = 398, !.end = 401, !.timeRange = "7d"],
           [NoOptions EXCEPT !.start = 399],
           [NoOptions EXCEPT !.end = 400, !.timeRange = "7d"],
           [NoOptions EXCEPT !.timeRange = "7d", !.platforms = <<"linkedin", "x">>],
           [NoOptions EXCEPT !.start = 397, !.end = 401, !.period = "week",
                             !.platforms = <<"x", "facebook", "instagram">>] }

\* The further arguments by kind: counts omitted, zero and positive; a text
\* and the empty text, scheduled an hour ahead, not at all, an hour ago
ArgChoices(kind, t) ==
    CASE kind = "posts.list" ->
            { [NoArgs EXCEPT !.listOptions = [count |-> n], !.random = r] :
                n \in {Undefined, 0, 1, 5}, r \in RandomStreams }
      [] kind \in {"posts.get", "posts.analytics"} ->
            { [NoArgs EXCEPT !.postId = "post_profile_x_001_0", !.random = r] : r \in RandomStreams }
      [] kind = "posts.create" ->
            { [NoArgs EXCEPT !.data = [text |-> text, scheduled_at |-> at]] :
                text \in {"Test post from SDK", ""},
                at \in {NoDate, toISOString(t + OneHour), toISOString(t - OneHour)} }
      [] kind \in AnalyticsKinds -> { [NoArgs EXCEPT !.random = r] : r \in RandomStreams }
      [] OTHER -> {NoArgs}

\* Client A works against the transport, client B is in simulation mode
InitPayload ==
    /\ now \in PayloadTimes
    /\ interceptors = <<"A", "B">>
    /\ clientConfig = [c \in Clients |-> IF c = "A" THEN SmallQuota ELSE Simulation]
    /\ initialized = [c \in Clients |-> TRUE]
    /\ config = [c \in Clients |-> EffectiveConfig(clientConfig[c])]
    /\ retryConfig = [c \in Clients |-> EffectiveRetryConfig(EffectiveConfig(clientConfig[c]))]
    /\ rateLimitState = [c \in Clients |->
            [requests |-> 0, resetTime |-> now + EffectiveConfig(clientConfig[c]).rateLimit.window]]
    /\ ops = [p \in Procs |-> IdleOp]
    /\ admitted = [c \in Clients |-> 0]
    /\ call = NoCall

\* A public operation is called on a client in simulation mode
CallSimulated(c, kind, profileId, options, args) ==
    /\ call = NoCall
    /\ initialized[c]
    /\ UsesSynthesizer(c, kind)
    /\ call' = Simulated([NoCall EXCEPT !.mode = "simulation", !.client = c, !.kind = kind,
                                        !.profileId = profileId, !.options = options,
                                        !.args = args, !.at = now])
    /\ UNCHANGED <<now, interceptors, clientConfig, initialized, config, retryConfig,
                   rateLimitState, ops, admitted>>

\* The requestFn of a live analytics operation builds its URL (client.ts:367-368)
BuildAnalyticsRequest(c, kind, profileId, options) ==
    /\ call = NoCall
    /\ initialized[c]
    /\ ~UsesSynthesizer(c, kind)
    /\ call' = [NoCall EXCEPT !.mode = "live", !.client = c, !.kind = kind,
                              !.profileId = profileId, !.options = options, !.at = now,
                              !.params = buildAnalyticsParams(options, now)]
    /\ UNCHANGED <<now, interceptors, clientConfig, initialized, config, retryConfig,
                   rateLimitState, ops, admitted>>

\* The caller is done with what it got
ReturnPayload ==
    /\ call # NoCall
    /\ call' = NoCall
    /\ UNCHANGED <<now, interceptors, clientConfig, initialized, config, retryConfig,
                   rateLimitState, ops, admitted>>

NextPayload ==
    \/ \E c \in Clients, kind \in OpKinds, id \in PayloadProfileIds, options \in AnalyticsOptionChoices :
           \E args \in ArgChoices(kind, now) : CallSimulated(c, kind, id, options, args)
    \/ \E c \in Clients, kind \in AnalyticsKinds, id \in PayloadProfileIds, options \in AnalyticsOptionChoices :
           BuildAnalyticsRequest(c, kind, id, options)
    \/ ReturnPayload

SpecPayload == InitPayload /\ [][NextPayload]_vars

\* ------------------------------------------------------------------ claims
PublicOp(o) == o.kind \in OpKinds
Quota(c) == config[c].rateLimit.requests

\* C1: within one window a client's check admits at most `quota` of the client's
\* own attempts: once that many are admitted, a further attempt made while
\* now <= resetTime is rejected; a rejected attempt is not dispatched to the
\* transport and the task neither waits nor sleeps on it.
C1_QuotaStopsFurtherCalls ==
    /\ \A c \in Clients : initialized[c] => admitted[c] <= Quota(c)
    /\ \A p \in Procs :
         ops[p].limited =>
            /\ ops[p].pc \in {"resp", "rejected"}
            /\ ops[p].wake = 0
            /\ PublicOp(ops[p]) => ops[p].sent = ops[p].attempt - 1

C1_Witness ==
    \E p \in Procs :
        LET o == ops[p] IN
        /\ PublicOp(o) /\ o.pc = "rejected" /\ o.limited
        /\ ~config[o.client].sdkMockMode
        /\ admitted[o.client] = Quota(o.client)
        /\ rateLimitState[o.client].requests = Quota(o.client)
        /\ now <= rateLimitState[o.client].resetTime

\* C2: a public operation that fails because its attempt was rate-limited
\* rejects with code RATE_LIMIT_EXCEEDED, statusCode 429 and a message that
\* carries the remaining wait time.
C2_RateLimitErrorSurfaces ==
    \A p \in Procs :
        LET o == ops[p] IN
        (PublicOp(o) /\ o.pc = "rejected" /\ o.limited) =>
            /\ o.err.code = "RATE_LIMIT_EXCEEDED"
            /\ o.err.statusCode = 429
            /\ \E c \in Clients : \E w \in 0..config[c].rateLimit.window :
                   o.err.message = RateLimitMessage(w)

\* C3: a call that begins once the window of its client has elapsed
\* (now > resetTime) is admitted, not rejected, and when it is dispatched the
\* client's counter is 1 and its resetTime lies one window after the reset.
C3_ExpiredWindowAdmits ==
    \A p \in Procs :
        LET o == ops[p]
            rls == rateLimitState[o.client]
        IN
        (PublicOp(o) /\ o.attempt >= 1 /\ o.expired) =>
            /\ ~o.limited
            /\ o.pc = "inflight" =>
                  /\ rls.requests = 1
                  /\ rls.resetTime > now

\* C4: a live operation whose every attempt reaches the transport and fails
\* there with a retryable kind is rejected after exactly retryAttempts
\* transport attempts.
C4_ExactlyNAttempts ==
    \A p \in Procs :
        LET o == ops[p] IN
        (PublicOp(o) /\ o.pc = "rejected" /\ o.sent >= 1 /\ o.allRetryable /\ ~o.everLimited) =>
            o.sent = config[o.client].retryAttempts

\* C5: retryRequest goes on to a further attempt only if fewer than the
\* configured attempts were made and the caught value has a retryable code;
\* any other caught value is rethrown by the attempt that caught it.
C5_RetriesOnlyRetryableKinds ==
    \A p \in Procs :
        LET o == ops[p] IN
        /\ o.pc = "sleep" =>
              /\ o.attempt < retryConfig[o.client].attempts
              /\ o.err.bae /\ o.err.code \in retryableCodes
        /\ (o.pc = "rejected" /\ o.attempt >= 1 /\ o.err.code \notin retryableCodes) =>
              o.err.att = o.attempt

\* C6: the sleep that follows failed attempt k lasts retryDelay * 2^(k-1), for
\* k in 1..retryAttempts-1, and attempt k+1 starts only when it has elapsed.
C6_BackoffSchedule ==
    [][\A p \in Procs :
         LET o == ops[p]
             cfg == config[o.client]
         IN
         /\ (o.pc # "sleep" /\ ops'[p].pc = "sleep") =>
               /\ o.attempt \in 1..(cfg.retryAttempts - 1)
               /\ ops'[p].wake = now + cfg.retryDelay * Pow(2, o.attempt - 1)
         /\ (o.pc = "sleep" /\ ops'[p].pc # "sleep") =>
               /\ now >= o.wake
               /\ ops'[p].attempt = o.attempt + 1]_vars

C6_Witness ==
    \E p \in Procs :
        LET o == ops[p] IN
        /\ PublicOp(o) /\ o.pc = "sleep" /\ o.attempt = 2
        /\ o.wake = now + 2 * config[o.client].retryDelay

\* C7: the one error a failed operation rejects with is the error of the last
\* attempt it made, either because the attempts are exhausted or because that
\* error is not retryable; the error of an earlier attempt is never surfaced.
C7_LastErrorSurfaces ==
    \A p \in Procs :
        LET o == ops[p] IN
        (PublicOp(o) /\ o.pc = "rejected" /\ o.attempt >= 1) =>
            /\ o.err # NoError /\ o.value = ""
            /\ o.err.att = o.attempt
            /\ o.attempt >= retryConfig[o.client].attempts \/ o.err.code \notin retryableCodes

C7_Witness ==
    \E p \in Procs :
        LET o == ops[p] IN
        /\ PublicOp(o) /\ o.pc = "rejected"
        /\ o.attempt = 3 /\ o.attempt = retryConfig[o.client].attempts
        /\ o.err.att = 3 /\ o.err.code = "HTTP_500"
        /\ o.first.att = 1 /\ o.first.code = "NETWORK_ERROR"

\* C8: a public operation of an initialized client only ever rejects with a
\* BufferAPIError that carries a code.
C8_StructuredErrors ==
    \A p \in Procs :
        (PublicOp(ops[p]) /\ ops[p].pc = "rejected") => ops[p].err.bae /\ ops[p].err.code # ""

C8_Witness ==
    \E p \in Procs :
        LET o == ops[p] IN
        /\ o.kind = "profiles.list" /\ o.pc = "rejected" /\ o.sent = 1 /\ ~o.limited
        /\ o.err.bae /\ o.err.code = "REQUEST_ERROR" /\ o.err.message = PlainError.message

\* C9: a step of a task of one client leaves the rate-limit state of every
\* other client unchanged.
C9_RateLimitStateIsPerClient ==
    [][\A p \in Procs, b \in Clients :
         (ops'[p] # ops[p] /\ ops'[p].client # b) => rateLimitState'[b] = rateLimitState[b]]_vars

\* C10: on a client in simulation mode every public operation settles in the
\* step that calls it, with no transport dispatch, without entering
\* retryRequest, and with the rate-limit state unchanged.
C10_SimulationBypassesPipeline ==
    [][\A p \in Procs :
         (ops[p].pc = "idle" /\ PublicOp(ops'[p]) /\ config[ops'[p].client].sdkMockMode) =>
            /\ Settled(ops'[p])
            /\ ops'[p].sent = 0 /\ ops'[p].attempt = 0 /\ ops'[p].n = 0
            /\ rateLimitState' = rateLimitState]_vars

C10_Witness ==
    \E p \in Procs :
        LET o == ops[p] IN
        /\ o.kind = "analytics.insights" /\ o.pc = "resolved" /\ o.value = "mock"
        /\ config[o.client].sdkMockMode
        /\ Len(interceptors) = 2
        /\ o.sent = 0 /\ o.attempt = 0

\* C11: in simulation mode profiles.get(id) returns the catalog profile whose
\* id is id when id is one of the 4 catalog ids and otherwise rejects with
\* PROFILE_NOT_FOUND, status 404; it never returns a profile with another id.
C11_SimulatedProfileLookup ==
    (call.mode = "simulation" /\ call.kind = "profiles.get") =>
        /\ Cardinality(CatalogIds) = 4
        /\ {generateMockProfiles[i].id : i \in 1..Len(generateMockProfiles)} = CatalogIds
        /\ IF call.profileId \in CatalogIds
           THEN call.outcome = "resolved" /\ call.profile.id = call.profileId
           ELSE /\ call.outcome = "rejected" /\ call.profile = NoProfile
                /\ call.err.bae /\ call.err.code = "PROFILE_NOT_FOUND" /\ call.err.statusCode = 404

C11_Witness ==
    /\ call.mode = "simulation" /\ call.kind = "profiles.get"
    /\ call.profileId = "profile_instagram_004"
    /\ call.outcome = "resolved" /\ call.profile.service = "instagram"

NotFoundCodes ==
    {"PROFILE_NOT_FOUND", "POST_NOT_FOUND", "ANALYTICS_NOT_FOUND", "POSTS_NOT_FOUND",
     "SUMMARY_NOT_FOUND", "INSIGHTS_NOT_FOUND"}

\* C12: in simulation mode posts.list, posts.create, analytics.posts and
\* analytics.summary called with a profile id outside the mock catalog reject
\* with a not-found error instead of returning synthesized data.
C12_SimulationRejectsUnknownProfile ==
    ( /\ call.mode = "simulation"
      /\ call.kind \in {"posts.list", "posts.create", "analytics.posts", "analytics.summary"}
      /\ call.profileId \notin CatalogIds ) =>
        /\ call.outcome = "rejected"
        /\ call.err.bae /\ call.err.code \in NotFoundCodes

\* C13: a live list or get operation (every public operation but posts.create)
\* that receives a response whose envelope has no data rejects with a
\* *_NOT_FOUND error and returns no value.
C13_MissingDataIsNotFound ==
    \A p \in Procs :
        LET o == ops[p] IN
        (PublicOp(o) /\ o.kind # "posts.create" /\ o.noData) =>
            /\ o.pc = "rejected" /\ o.value = ""
            /\ o.err.bae /\ o.err.code \in NotFoundCodes

\* C13 as amended: a live get operation (profiles.get, posts.get,
\* posts.analytics, analytics.*) that receives a response without data rejects,
\* on the attempt that received it, with its *_NOT_FOUND error and status 404,
\* and returns no value; profiles.list and posts.list resolve with the empty
\* list instead.
C13_MissingDataOutcome ==
    \A p \in Procs :
        LET o == ops[p] IN
        (PublicOp(o) /\ o.kind # "posts.create" /\ o.noData) =>
            IF o.kind \in ListKinds
            THEN o.pc = "resolved" /\ o.value = "[]" /\ o.err = NoError
            ELSE /\ o.pc = "rejected" /\ o.value = ""
                 /\ o.err.bae /\ o.err.code \in NotFoundCodes /\ o.err.statusCode = 404
                 /\ o.err.att = o.attempt

C13_Witness ==
    \E p \in Procs :
        /\ ops[p].kind = "posts.list" /\ ops[p].noData /\ ops[p].pc = "resolved"
        /\ ops[p].value = "[]" /\ ops[p].attempt = 2 /\ ops[p].sent = 2

\* C14: initialize posts the token exchange only when the configuration carries
\* no accessToken, and the configuration of a client that was given an
\* accessToken holds that token (the one sent as `Bearer`).
C14_ExchangeOnlyWithoutToken ==
    /\ \A p \in Procs :
          LET o == ops[p] IN
          (o.kind = "initialize" /\ clientConfig[o.client].accessToken # "") =>
              o.sent = 0 /\ o.pc \notin {"req", "inflight", "resp"}
    /\ \A c \in Clients :
          (initialized[c] /\ clientConfig[c].accessToken # "") =>
              config[c].accessToken = clientConfig[c].accessToken

\* C15: when the token exchange of initialize fails, initialize rejects and
\* sets nothing up: configuration, retry policy, rate-limit state and the
\* registered interceptors stay as they were, and a client that was never
\* initialized has none of them.
C15_FailedExchangeSetsNothingUp ==
    [][\A p \in Procs :
         LET o == ops[p]
             c == o.client
         IN
         (o.kind = "initialize" /\ Running(o) /\ ~Running(ops'[p]) /\ ops'[p].err # NoError) =>
            /\ ops'[p].pc = "rejected"
            /\ UNCHANGED <<config, retryConfig, rateLimitState, interceptors, initialized>>
            /\ ~initialized[c] =>
                  /\ config'[c] = UndefinedConfig
                  /\ retryConfig'[c] = UndefinedRetryConfig
                  /\ rateLimitState'[c] = UndefinedRateLimitState
                  /\ \A i \in 1..Len(interceptors') : interceptors'[i] # c]_vars

C15_Witness ==
    \E p \in Procs :
        LET o == ops[p] IN
        /\ o.kind = "initialize" /\ o.pc = "rejected" /\ o.sent = 1
        /\ o.err.code = "HTTP_503"
        /\ ~initialized[o.client] /\ config[o.client] = UndefinedConfig
        /\ \A i \in 1..Len(interceptors) : interceptors[i] # o.client

\* C16: after initialize the effective configuration holds, for baseUrl,
\* timeout, retryAttempts, retryDelay, rateLimit.requests and rateLimit.window,
\* the value the caller supplied (0 included) and otherwise the default:
\* timeout 10000, 3 attempts, delay 1000, 100 requests per 3600000 ms, and the
\* backoff factor is 2.
C16_EffectiveConfiguration ==
    \A c \in Clients :
        initialized[c] =>
            LET cc == clientConfig[c]
                cfg == config[c]
            IN
            /\ cc.baseUrl # "" => cfg.baseUrl = cc.baseUrl
            /\ cfg.timeout = (IF cc.timeout # Undefined THEN cc.timeout ELSE 10000)
            /\ cfg.retryAttempts = (IF cc.retryAttempts # Undefined THEN cc.retryAttempts ELSE 3)
            /\ cfg.retryDelay = (IF cc.retryDelay # Undefined THEN cc.retryDelay ELSE 1000)
            /\ cfg.rateLimit.requests = (IF cc.requests # Undefined THEN cc.requests ELSE 100)
            /\ cfg.rateLimit.window = (IF cc.window # Undefined THEN cc.window ELSE 3600000)
            /\ retryConfig[c].backoffFactor = 2

\* C17: the window of an analytics call, in live mode (the start and end sent)
\* and in simulation mode (the start and end of the completed options) alike:
\* an explicit start or end is the one used; with neither, a shorthand 7d, 30d,
\* 90d, 1y gives the trailing 7, 30, 90, 365 days ending at the call, and no
\* shorthand or an unrecognized one the trailing 30 days.
C17_AnalyticsWindow ==
    (call.kind \in AnalyticsKinds /\ call.mode # "") =>
        LET o == call.options
            w == IF call.mode = "simulation" THEN call.complete ELSE call.params
            days == CASE o.timeRange = "7d" -> 7
                      [] o.timeRange = "30d" -> 30
                      [] o.timeRange = "90d" -> 90
                      [] o.timeRange = "1y" -> 365
                      [] OTHER -> 30
        IN
        /\ o.start # Undefined => w.start = o.start
        /\ o.end # Undefined => w.end = o.end
        /\ (o.start = Undefined /\ o.end = Undefined) =>
              /\ w.start = DateString(call.at - days * millisecondsPerDay)
              /\ w.end = DateString(call.at)

\* C18: in simulation mode analytics.posts(profileId, {timeRange: '7d'})
\* returns only records published within the 7 days before the call.
C18_SevenDayWindow ==
    ( /\ call.mode = "simulation" /\ call.kind = "analytics.posts"
      /\ call.options = [NoOptions EXCEPT !.timeRange = "7d"] ) =>
        \A i \in 1..Len(call.analytics) :
            /\ call.analytics[i].publishedAt >= call.at - 7 * millisecondsPerDay
            /\ call.analytics[i].publishedAt <= call.at

\* C19: the list analytics.posts returns in simulation mode is sorted by
\* publishedAt, strictly descending.
C19_NewestFirst ==
    (call.mode = "simulation" /\ call.kind = "analytics.posts") =>
        \A i \in 1..(Len(call.analytics) - 1) :
            call.analytics[i].publishedAt > call.analytics[i + 1].publishedAt

C19_Witness ==
    /\ call.mode = "simulation" /\ call.kind = "analytics.posts"
    /\ call.outcome = "resolved"
    /\ Len(call.analytics) >= 100
    /\ call.analytics[1].publishedAt > call.analytics[Len(call.analytics)].publishedAt

\* C20: in simulation mode the totalPosts of analytics.summary equals the
\* length of the list analytics.posts returns for the same profile id and
\* options at the same time.
C20_SummaryCountsThePosts ==
    (call.mode = "simulation" /\ call.kind = "analytics.summary") =>
        call.summary.totalPosts =
            Len(analyticsPosts(call.profileId, call.options, call.at, call.args.random))

C20_Witness ==
    /\ call.mode = "simulation" /\ call.kind = "analytics.summary"
    /\ call.outcome = "resolved"
    /\ call.summary.totalPosts > 0
    /\ call.summary.totalPosts <
           calculatePostCount(getTimeRangeDays(call.complete), call.complete)

\* C29: the error of a transport failure that retryRequest decides on was
\* normalized exactly once: its code is the one the first normalization
\* assigned from the raw failure, however many clients are registered.
C29_NormalizedOnce ==
    \A p \in Procs :
        LET o == ops[p] IN
        (PublicOp(o) /\ o.pc \in {"sleep", "rejected"} /\ ~o.limited /\ o.err.norm >= 1) =>
            /\ o.err.norm = 1
            /\ o.err.code = o.err.origin

\* C30: the error handler maps a failure with a response of status s to code
\* HTTP_s and statusCode s, a failure with a request and no response to
\* NETWORK_ERROR, and every other failure to REQUEST_ERROR; the response is
\* looked at before the request.
C30_ThreeWayMapping ==
    [][\A p \in Procs :
         (ops[p].pc = "resp" /\ ops'[p] # ops[p]) =>
            LET e == ops[p].err
                f == ops'[p].err
            IN
            /\ f.bae
            /\ IF e.response # 0
               THEN f.code = "HTTP_" \o ToString(e.response) /\ f.statusCode = e.response
               ELSE IF e.request THEN f.code = "NETWORK_ERROR"
               ELSE f.code = "REQUEST_ERROR"]_vars

\* C30 as amended: as above, but a failure with a response gets the code its
\* body carries when the body carries one, and HTTP_s otherwise.
C30_ThreeWayMappingBodyCode ==
    [][\A p \in Procs :
         (ops[p].pc = "resp" /\ ops'[p] # ops[p]) =>
            LET e == ops[p].err
                f == ops'[p].err
            IN
            /\ f.bae
            /\ IF e.response # 0
               THEN /\ f.code = (IF e.bodyCode # "" THEN e.bodyCode
                                 ELSE "HTTP_" \o ToString(e.response))
                    /\ f.statusCode = e.response
               ELSE IF e.request THEN f.code = "NETWORK_ERROR" /\ f.statusCode = 0
               ELSE f.code = "REQUEST_ERROR" /\ f.statusCode = 0]_vars

C30_Witness ==
    \E p \in Procs :
        /\ PublicOp(ops[p]) /\ ops[p].pc = "rejected"
        /\ ops[p].err.code = "SERVICE_DOWN" /\ ops[p].err.statusCode = 503
        /\ ops[p].err.norm = 1

\* C28: the rate-limit check and increment are atomic per call: under every
\* interleaving of concurrent operations and their retries on one client, two
\* attempts admitted in the same window never read the same counter value, and
\* the attempts admitted since the last reset never exceed the quota.
C28_AtomicCheckAndIncrement ==
    /\ \A c \in Clients : initialized[c] => admitted[c] <= config[c].rateLimit.requests
    /\ \A p, q \in Procs :
          (/\ p # q
           /\ ops[p].client = ops[q].client
           /\ ops[p].seen # Undefined /\ ops[q].seen # Undefined
           /\ ops[p].win = ops[q].win) => ops[p].seen # ops[q].seen

C28_Witness ==
    /\ \A p \in Procs : ops[p].pc = "inflight" /\ ops[p].win = rateLimitState["A"].resetTime
    /\ \E p \in Procs : ops[p].attempt = 2
    /\ {ops[p].seen : p \in Procs} = {1, 2}
    /\ admitted["A"] = 3

\* C21: in simulation mode the totalEngagement of analytics.summary equals the
\* sum of all metric values over the list a call of analytics.posts returns
\* for the same profile id and options at the same time, whatever that call
\* draws from the random source.
C21_SummarySumsThePosts ==
    (call.mode = "simulation" /\ call.kind = "analytics.summary") =>
        \A r \in RandomStreams :
            LET posts == analyticsPosts(call.profileId, call.options, call.at, r)
            IN call.summary.totalEngagement = SumMetrics(posts, 1, Len(posts))

\* The PostAnalytics records the last call returned
ReturnedPostAnalytics ==
    IF call.mode = "simulation" /\ call.kind = "analytics.posts"
    THEN {call.analytics[i] : i \in 1..Len(call.analytics)}
    ELSE IF call.mode = "simulation" /\ call.kind = "posts.analytics"
    THEN {call.postAnalytics}
    ELSE {}

\* C22: every PostAnalytics record of analytics.posts and of posts.analytics
\* in simulation mode has a retweets metric and no saves metric when its
\* service is x, and a saves metric and no retweets metric when its service
\* is instagram.
C22_PlatformMetricShape ==
    \A a \in ReturnedPostAnalytics :
        /\ a.service = "x" => "retweets" \in DOMAIN a.metrics /\ "saves" \notin DOMAIN a.metrics
        /\ a.service = "instagram" =>
                "saves" \in DOMAIN a.metrics /\ "retweets" \notin DOMAIN a.metrics

C22_Witness ==
    /\ call.kind = "analytics.posts"
    /\ \E a, b \in ReturnedPostAnalytics :
          /\ a.service = "x" /\ a.metrics.retweets > 0
          /\ b.service = "instagram" /\ b.metrics.saves > 0

\* C23: posts.create in simulation mode returns a post whose text is the text
\* the caller supplied, whose status is buffer, whose statistics are all zero
\* and whose due time is the supplied scheduled time when one was given.
C23_CreateEchoes ==
    (call.mode = "simulation" /\ call.kind = "posts.create") =>
        /\ call.post.text = call.args.data.text
        /\ call.post.status = "buffer"
        /\ call.post.statistics = ZeroStatistics
        /\ call.args.data.scheduled_at # NoDate =>
                call.post.due_at = getTime(call.args.data.scheduled_at)

\* C24: the post posts.create returns in simulation mode carries the profile
\* id the call was given.
C24_CreateKeepsProfile ==
    (call.mode = "simulation" /\ call.kind = "posts.create") =>
        call.post.profile_id = call.profileId

\* C25: posts.list(profileId, {count: n}) in simulation mode returns exactly n
\* posts (20 when count is omitted), each with profile_id = profileId and with
\* pairwise distinct ids.
C25_ListCount ==
    (call.mode = "simulation" /\ call.kind = "posts.list") =>
        LET n == call.args.listOptions.count IN
        /\ Len(call.posts) = (IF n = Undefined THEN 20 ELSE n)
        /\ \A i \in 1..Len(call.posts) : call.posts[i].profile_id = call.profileId
        /\ \A i, j \in 1..Len(call.posts) : i # j => call.posts[i].id # call.posts[j].id

\* C26: every PostAnalytics record of analytics.posts and of posts.analytics
\* in simulation mode has impressions >= reach.
C26_ImpressionsCoverReach ==
    \A a \in ReturnedPostAnalytics : a.impressions >= a.reach

\* The posts the last call returned
ReturnedPosts ==
    IF call.mode = "simulation" /\ call.kind = "posts.list"
    THEN {call.posts[i] : i \in 1..Len(call.posts)}
    ELSE IF call.mode = "simulation" /\ call.kind \in {"posts.get", "posts.create"}
    THEN {call.post}
    ELSE {}

\* C27: every post of posts.list, posts.get and posts.create in simulation
\* mode has due_at >= created_at and, when it has a sent_at, sent_at >= created_at.
C27_PostTimesOrdered ==
    \A post \in ReturnedPosts :
        /\ post.due_at >= post.created_at
        /\ post.sent_at # Undefined => post.sent_at >= post.created_at

\* C31: a live operation whose transport failure carried a response of status
\* 500, 502 or 503 is retried while attempts remain, whatever the body of the
\* response; a failure with a response of any other status is not retried.
C31_RetriesByStatus ==
    \A p \in Procs :
        LET o == ops[p] IN
        (PublicOp(o) /\ o.err.norm >= 1 /\ o.err.raw # 0) =>
            /\ (o.pc = "rejected" /\ o.err.raw \in {500, 502, 503}) =>
                    o.err.att >= retryConfig[o.client].attempts
            /\ o.pc = "sleep" => o.err.raw \in {500, 502, 503}

\* C32: an initialize whose token exchange only met failures of a retryable
\* kind rejects after as many exchange attempts as the retry policy allows.
C32_ExchangeIsRetried ==
    \A p \in Procs :
        LET o == ops[p] IN
        (o.kind = "initialize" /\ o.pc = "rejected" /\ o.sent >= 1 /\ o.allRetryable
            /\ ~o.everLimited) =>
            o.sent = OrDefault(clientConfig[o.client].retryAttempts, DefaultRetryAttempts)

\* C33: the request counter of an initialized client equals the number of
\* that client's own attempts admitted since the last window reset.
C33_CounterCountsAttempts ==
    \A c \in Clients : initialized[c] => rateLimitState[c].requests = admitted[c]

C35_SlidingBudget ==
    \A c \in Clients : initialized[c] =>
        \A t \in 0..MaxTime :
            Cardinality({ p \in Procs :
                            /\ ops[p].client = c /\ ops[p].seen # Undefined
                            /\ ops[p].at >= t
                            /\ ops[p].at < t + config[c].rateLimit.window }) <= Quota(c)

\* C36: every live operation that is under way eventually settles, with a
\* result or an error, and never makes more transport attempts than
\* retryAttempts; its attempts follow one another, a task being in one place
\* of one attempt at a time.
C36_OperationsComplete ==
    /\ [](\A p \in Procs :
            PublicOp(ops[p]) =>
                /\ ops[p].sent <= retryConfig[ops[p].client].attempts
                /\ ops[p].sent <= ops[p].attempt
                /\ ops[p].pc = "inflight" => ops[p].sent = ops[p].attempt)
    /\ \A p \in Procs : (PublicOp(ops[p]) /\ Running(ops[p])) ~> Settled(ops[p])

C36_Witness ==
    \E p \in Procs :
        /\ PublicOp(ops[p]) /\ ops[p].pc = "rejected"
        /\ ops[p].attempt = retryConfig[ops[p].client].attempts
        /\ ops[p].sent = ops[p].attempt
        /\ ops[p].attempt >= 2

\* C37: every figure of a summary comes from the one post set the call
\* generated: totalPosts is its size, totalEngagement the sum of all its
\* metric values, averageEngagementRate the mean of its rates (0 when it is
\* empty), bestPerformingPost the id of a post of maximal rate (the fallback
\* id when it is empty), the postCounts of the breakdown add up to totalPosts
\* and its reach values to topMetrics.reach, and no entry has postCount 0.
C37_SummaryFromOnePostSet ==
    (call.mode = "simulation" /\ call.kind = "analytics.summary") =>
        LET posts == call.analytics
            summary == call.summary
            n == Len(posts)
            breakdown == summary.platformBreakdown
        IN
        /\ summary.totalPosts = n
        /\ summary.totalEngagement =
              SumSeq([i \in 1..n |-> SumValues(posts[i].metrics, DOMAIN posts[i].metrics)], 1, n)
        /\ IF n = 0
           THEN /\ summary.averageEngagementRate.num = 0
                /\ summary.bestPerformingPost = "post_" \o call.profileId \o "_best"
           ELSE /\ summary.averageEngagementRate.num * n =
                      SumSeq([i \in 1..n |-> posts[i].engagementRate], 1, n)
                          * summary.averageEngagementRate.den
                /\ \E i \in 1..n :
                      /\ posts[i].postId = summary.bestPerformingPost
                      /\ \A j \in 1..n : posts[j].engagementRate <= posts[i].engagementRate
        /\ SumSeq([k \in 1..Len(breakdown) |-> breakdown[k].postCount], 1, Len(breakdown)) = n
        /\ SumSeq([k \in 1..Len(breakdown) |-> breakdown[k].reach], 1, Len(breakdown)) =
              summary.topMetrics.reach
        /\ summary.topMetrics.reach = SumSeq([i \in 1..n |-> posts[i].reach], 1, n)
        /\ \A k \in 1..Len(breakdown) : breakdown[k].postCount > 0

C37_Witness ==
    /\ call.mode = "simulation" /\ call.kind = "analytics.summary"
    /\ call.summary.totalPosts >= 100
    /\ Len(call.summary.platformBreakdown) = 4
    /\ call.summary.totalEngagement > 0
    /\ call.summary.trending.direction = "up"

====
